---------------------------- MODULE Spec2Model ----------------------------
(***************************************************************************)
(* Model of scripts/rfc2book.py: the generator of the mdBook SUMMARY.md    *)
(* and of the symbolic links book/src/rfcs/* from the rfcs/ directory.     *)
(*                                                                         *)
(* Paths, file names and file contents are strings and every string        *)
(* operation of the script (endswith, slices, concatenation, the sort key) *)
(* is computed character by character.  The file system is a function     *)
(* from absolute paths to nodes (directory, regular file, symbolic link).  *)
(***************************************************************************)
EXTENDS Integers, Sequences, FiniteSets, TLC

\* Bounds of the model.
MaxFiles == 4    \* an RFC tree holds at most this many files
MaxRuns  == 2    \* the tool is run at most this many times in a row

---------------------------------------------------------------------------
\* Strings

\* The characters of file names, in code-point order (the order of str.<).
Ascii == "-./0123456789ABCDEFGHIJKLMNOPQRSTUVWXYZ_abcdefghijklmnopqrstuvwxyz"

Ord(c) == CHOOSE i \in 1..Len(Ascii) : SubSeq(Ascii, i, i) = c

Char(s, i) == SubSeq(s, i, i)

\* str.endswith(suffix)
EndsWith(s, suffix) ==
    /\ Len(s) >= Len(suffix)
    /\ SubSeq(s, Len(s) - Len(suffix) + 1, Len(s)) = suffix

StartsWith(s, prefix) ==
    /\ Len(s) >= Len(prefix)
    /\ SubSeq(s, 1, Len(prefix)) = prefix

\* s[k:]
SliceFrom(s, k) == SubSeq(s, k + 1, Len(s))

\* s[:-k]
DropLast(s, k) == SubSeq(s, 1, Len(s) - k)

\* s * n
RECURSIVE Repeat(_, _)
Repeat(s, n) == IF n = 0 THEN "" ELSE s \o Repeat(s, n - 1)

\* a < b on Python strings: lexicographic on code points.
StrLess(a, b) ==
    \E i \in 1..(Len(b)) :
        /\ i <= Len(a) + 1
        /\ SubSeq(a, 1, i - 1) = SubSeq(b, 1, i - 1)
        /\ \/ i = Len(a) + 1
           \/ Ord(Char(a, i)) < Ord(Char(b, i))

\* The k-th of the strings of S in ascending order.
Ranked(S, k) == CHOOSE x \in S : Cardinality({y \in S : StrLess(y, x)}) = k - 1

\* The list sorted the wrong way round (reverse=True).
SortedDescending(S) == [k \in 1..Cardinality(S) |-> Ranked(S, Cardinality(S) + 1 - k)]

\* sorted(S) for a set of distinct strings: list.sort(key=lambda e: e.name)
Sorted(S) == [k \in 1..Cardinality(S) |-> Ranked(S, k)]

---------------------------------------------------------------------------
\* Paths, as the operating system resolves them

\* The element of a one-element set.  Value({e(x) : x \in {v}}) is e(v), with
\* v computed once, before e.
Value(S) == CHOOSE v \in S : TRUE

\* The k-th of the numbers of c in ascending order.
Nth(c, k) == CHOOSE x \in c : Cardinality({d \in c : d < x}) = k - 1

\* The pieces of s between its slashes.
Split(s) ==
    Value({ [k \in 1..(Cardinality(c) - 1) |-> SubSeq(s, Nth(c, k) + 1, Nth(c, k + 1) - 1)] :
            c \in { {0, Len(s) + 1} \cup {i \in 1..Len(s) : Char(s, i) = "/"} } })

\* One component of a path is walked: "" and "." stay, ".." goes up (the
\* root is its own parent), a name goes down.
PushSeg(acc, seg) ==
    IF seg = "" \/ seg = "." THEN acc
    ELSE IF seg = ".." THEN SubSeq(acc, 1, Len(acc) - 1)
    ELSE Append(acc, seg)

RECURSIVE WalkPath(_, _)
WalkPath(raw, n) ==
    IF n = 0 THEN <<>>
    ELSE Value({ PushSeg(acc, raw[n]) : acc \in {WalkPath(raw, n - 1)} })

\* The names from the root to the place the absolute path abs names.
Segments(abs) == Value({ WalkPath(raw, Len(raw)) : raw \in {Split(abs)} })

RECURSIVE JoinSegs(_, _)
JoinSegs(segs, n) ==
    IF n = 0 THEN "" ELSE JoinSegs(segs, n - 1) \o "/" \o segs[n]

\* The absolute path that the relative or absolute path p names from the
\* directory base.
AbsPath(base, p) ==
    Value({ IF segs = <<>> THEN "/" ELSE JoinSegs(segs, Len(segs)) :
            segs \in {Segments(IF StartsWith(p, "/") THEN p ELSE base \o "/" \o p)} })

Dirname(abs) ==
    Value({ IF Len(segs) <= 1 THEN "/" ELSE JoinSegs(segs, Len(segs) - 1) :
            segs \in {Segments(abs)} })

Basename(abs) ==
    Value({ IF segs = <<>> THEN "" ELSE segs[Len(segs)] : segs \in {Segments(abs)} })

\* p lies strictly below the directory dir
IsUnder(dir, p) == Len(p) > Len(dir) + 1 /\ StartsWith(p, dir \o "/")

\* p is an entry of the directory dir
IsChild(dir, p) == IsUnder(dir, p) /\ Dirname(p) = dir

---------------------------------------------------------------------------
\* The file system

DirNode     == [kind |-> "dir",  data |-> ""]
FileNode(d) == [kind |-> "file", data |-> d]
LinkNode(t) == [kind |-> "link", data |-> t]

\* A symbolic link is followed at most this many times when a path is resolved.
SymlinkHops == 2

\* The node a path resolves to when symbolic links are followed ("" when the
\* path names nothing or the link dangles).
RECURSIVE Follow(_, _, _)
Follow(f, abs, hops) ==
    IF abs \notin DOMAIN f THEN ""
    ELSE IF f[abs].kind # "link" THEN abs
    ELSE IF hops = 0 THEN ""
    ELSE Follow(f, AbsPath(Dirname(abs), f[abs].data), hops - 1)

\* os.path.exists: follows symbolic links, so False for a dangling link.
exists(f, abs) == Follow(f, abs, SymlinkHops) # ""

\* os.path.lexists: the name itself is taken.
lexists(f, abs) == abs \in DOMAIN f

\* os.path.isdir
isdir(f, abs) ==
    LET t == Follow(f, abs, SymlinkHops) IN t # "" /\ f[t].kind = "dir"

isfile(f, abs) ==
    LET t == Follow(f, abs, SymlinkHops) IN t # "" /\ f[t].kind = "file"

\* The names os.scandir(abs) yields.
scandir(f, abs) == { Basename(p) : p \in { q \in DOMAIN f : IsChild(abs, q) } }

Remove(f, gone) == [p \in DOMAIN f \ gone |-> f[p]]

\* shutil.rmtree(abs)
rmtree(f, abs) ==
    IF f[abs].kind = "link" THEN [fs |-> f, err |-> "OSError"]
    ELSE IF f[abs].kind # "dir" THEN [fs |-> f, err |-> "NotADirectoryError"]
    ELSE [fs  |-> Remove(f, {abs} \cup {p \in DOMAIN f : IsUnder(abs, p)}),
          err |-> "none"]

\* os.mkdir(abs)
mkdir(f, abs) ==
    IF lexists(f, abs) THEN [fs |-> f, err |-> "FileExistsError"]
    ELSE IF ~isdir(f, Dirname(abs)) THEN [fs |-> f, err |-> "FileNotFoundError"]
    ELSE [fs |-> (abs :> DirNode) @@ f, err |-> "none"]

\* os.symlink(src, abs)
os_symlink(f, src, abs) ==
    IF lexists(f, abs) THEN [fs |-> f, err |-> "FileExistsError"]
    ELSE IF ~isdir(f, Dirname(abs)) THEN [fs |-> f, err |-> "FileNotFoundError"]
    ELSE [fs |-> (abs :> LinkNode(src)) @@ f, err |-> "none"]

\* open(abs, 'a'): the content of an existing file is kept.
open_a(f, abs) == IF abs \in DOMAIN f THEN f ELSE (abs :> FileNode("")) @@ f

\* open(abs, 'w'): the file is created or truncated.
open_w(f, abs) == (abs :> FileNode("")) @@ f

\* file.write(s)
write(f, abs, s) == [f EXCEPT ![abs] = FileNode(@.data \o s)]

---------------------------------------------------------------------------
\* The files the tool is run on

RfcRoot == "/mnemos/rfcs"
BookSrc == "/mnemos/book/src"
BookOut == "/mnemos/book/src/rfcs"

\* The working directories the tool is started from.
Cwds == {"/mnemos", "/mnemos/book", "/mnemos/notebook", "/mnemos/rfcs"}

\* The files an RFC tree is drawn from, relative to the rfcs directory.
RfcFiles ==
    {"README.md", "a.md", "b.md", "a/README.md", "a/b.md", "a/b/c.md",
     "README/r.md", "o/a.md", "n.txt"}

RfcTrees == {T \in SUBSET RfcFiles : Cardinality(T) <= MaxFiles}

\* The directories between root (excluded) and the file abs.
RECURSIVE DirsAbove(_, _)
DirsAbove(root, abs) ==
    LET d == Dirname(abs) IN IF IsUnder(root, d) THEN {d} \cup DirsAbove(root, d) ELSE {}

Index == "# Book\n"

BaseDirs ==
    {"/mnemos", "/mnemos/book", "/mnemos/book/src", "/mnemos/rfcs",
     "/mnemos/notebook", "/mnemos/notebook/src"}

\* What the output directory holds before the first run: nothing, the links
\* and summary of an earlier run on another tree, or a regular file.
StaleKinds == {"none", "links", "file"}

StaleNodes(kind) ==
    IF kind = "links"
    THEN (BookOut :> DirNode)
      @@ ((BookOut \o "/old.md")   :> LinkNode("../../../rfcs/old.md"))
      @@ ((BookOut \o "/a.md")     :> LinkNode("../../../rfcs/old/a.md"))
      @@ ((BookOut \o "/old")      :> DirNode)
      @@ ((BookOut \o "/old/x.md") :> FileNode("x"))
      @@ ((BookSrc \o "/SUMMARY.md") :> FileNode("- [old](rfcs/old.md)\n"))
    ELSE IF kind = "file"
    THEN (BookOut :> FileNode("x"))
    ELSE <<>>

InitialFs(tree, stale) ==
    LET files == {RfcRoot \o "/" \o t : t \in tree}
        dirs  == BaseDirs \cup UNION {DirsAbove(RfcRoot, p) : p \in files}
    IN  StaleNodes(stale)
        @@ ((BookSrc \o "/index.md") :> FileNode(Index))
        @@ [p \in dirs |-> DirNode]
        @@ [p \in files |-> FileNode("")]

---------------------------------------------------------------------------
\* State

VARIABLES
    cwd,        \* os.getcwd()
    fs,         \* the file system
    stdout,     \* what print() has written
    pc,         \* where main() is
    err,        \* the exception that ended the run, "none" while there is none
    src_path,   \* main's local
    rfc_path,   \* main's local
    stack,      \* the activations of collect(), innermost last
    rows,       \* history: the listing rows written in the current run
    made,       \* history: the links os.symlink created in the current run
    skipped,    \* history: the entries whose link symlink() did not create
    entered,    \* history: the directories collect() was called on
    pre,        \* history: the file system when the current run started
    run,        \* history: the number of the current run
    prev        \* history: how the previous run ended

vars == <<cwd, fs, stdout, pc, err, src_path, rfc_path, stack,
          rows, made, skipped, entered, pre, run, prev>>

NoRun == [run |-> 0, err |-> "none", summary |-> "", links |-> <<>>]

Init ==
    /\ cwd \in Cwds
    /\ \E tree \in RfcTrees, stale \in StaleKinds : fs = InitialFs(tree, stale)
    /\ stdout = ""
    /\ pc = "start"
    /\ err = "none"
    /\ src_path = ""
    /\ rfc_path = ""
    /\ stack = <<>>
    /\ rows = <<>>
    /\ made = {}
    /\ skipped = {}
    /\ entered = <<>>
    /\ pre = fs
    /\ run = 1
    /\ prev = NoRun

Abs(p) == AbsPath(cwd, p)

---------------------------------------------------------------------------
\* main(), lines 32-44: the paths are chosen from the working directory.

main_paths(dir) ==
    IF EndsWith(dir, "book")
    THEN [ok |-> TRUE, src_path |-> "src", rfc_path |-> "../rfcs"]
    ELSE IF EndsWith(dir, "mnemos")
    THEN [ok |-> TRUE, src_path |-> "book/src", rfc_path |-> "rfcs"]
    ELSE [ok |-> FALSE, src_path |-> "", rfc_path |-> ""]

Resolve ==
    /\ pc = "start"
    /\ LET r == main_paths(cwd)
       IN  /\ src_path' = r.src_path
           /\ rfc_path' = r.rfc_path
           /\ pc'  = IF r.ok THEN "reset" ELSE "failed"
           /\ err' = IF r.ok THEN "none" ELSE "UsageError"
    /\ UNCHANGED <<cwd, fs, stdout, stack, rows, made, skipped, entered, pre, run, prev>>

book_rfcs == src_path \o "/rfcs"

OutDir == Abs(book_rfcs)

\* os.makedirs(abs, exist_ok=True) in place of lines 46-49: what is there stays.
reset_keep(f, abs) ==
    IF exists(f, abs) THEN [fs |-> f, err |-> "none"] ELSE mkdir(f, abs)

\* main(), lines 46-49: the output directory is removed and made again.
reset(f, abs) ==
    LET r1 == IF exists(f, abs) THEN rmtree(f, abs) ELSE [fs |-> f, err |-> "none"]
    IN  IF r1.err # "none" THEN r1 ELSE mkdir(r1.fs, abs)

ResetOutput ==
    /\ pc = "reset"
    /\ LET r == reset(fs, Abs(book_rfcs))
       IN  /\ fs'  = r.fs
           /\ err' = r.err
           /\ pc'  = IF r.err = "none" THEN "header" ELSE "failed"
    /\ UNCHANGED <<cwd, stdout, src_path, rfc_path, stack, rows, made, skipped,
                   entered, pre, run, prev>>

\* collect(), lines 62-63: the activation of collect on path at depth.
collect(f, path, depth) ==
    [path    |-> path,
     depth   |-> depth,
     entries |-> Sorted({n \in scandir(f, Abs(path)) : EndsWith(n, ".md")}),
     i       |-> 1]

index_item0 == "\n# RFCs\n\n- [Introduction](rfcs/README.md)\n"

SummaryFile == Abs(src_path \o "/SUMMARY.md")

\* main(), lines 51-58: the index is copied, the header written and collect
\* called on the RFC directory.
WriteHeader ==
    /\ pc = "header"
    /\ LET index == Abs(src_path \o "/index.md")
       IN  IF ~isfile(fs, index)
           THEN /\ err' = "FileNotFoundError"
                /\ pc' = "failed"
                /\ UNCHANGED <<fs, stdout, stack, entered>>
           ELSE LET summary == fs[Follow(fs, index, SymlinkHops)].data
                    f1 == write(write(open_w(fs, SummaryFile), SummaryFile, summary),
                                SummaryFile, "\n" \o index_item0)
                IN  /\ fs' = f1
                    /\ stdout' = stdout \o index_item0
                    /\ IF isdir(f1, Abs(rfc_path))
                       THEN /\ stack' = <<collect(f1, rfc_path, 0)>>
                            /\ entered' = <<[dir |-> Abs(rfc_path), via |-> "", depth |-> 0]>>
                            /\ pc' = "collect"
                            /\ err' = "none"
                       ELSE /\ err' = "FileNotFoundError"
                            /\ pc' = "failed"
                            /\ UNCHANGED <<stack, entered>>
    /\ UNCHANGED <<cwd, src_path, rfc_path, rows, made, skipped, pre, run, prev>>

\* symlink(), lines 77-79
symlink(f, src, dst) ==
    IF ~exists(f, Abs(dst)) THEN os_symlink(f, src, Abs(dst))
    ELSE [fs |-> f, err |-> "none"]

\* collect(), lines 66-70: the listing row of an entry.
listing_row(path, entry_name, depth) ==
    LET indent    == Repeat("    ", depth)
        name      == DropLast(entry_name, 3)
        link_path == SliceFrom(path \o "/" \o entry_name, 5)
    IN  "- " \o indent \o "[" \o name \o "](rfcs/" \o link_path \o ")\n"

\* Line 68 left out: README is listed like any other entry.
is_listed_always(name) == TRUE

\* collect(), line 68: the entries that get a row and whose directory is
\* looked for.
is_listed(name) == name # "README"

\* Line 73 without the join: the directory looked for is path itself.
subdir_same(path, name) == path

\* collect(), line 73: os.path.join(path, name)
subdir_of(path, name) == path \o "/" \o name

\* collect(), lines 64-75: one turn of the loop, for the next entry of the
\* innermost activation.
CollectEntry ==
    /\ pc = "collect"
    /\ stack # <<>>
    /\ LET top        == Len(stack)
           fr         == stack[top]
       IN  /\ fr.i <= Len(fr.entries)
           /\ LET entry_name == fr.entries[fr.i]
                  src  == "../../../" \o fr.path \o "/" \o entry_name
                  dst  == src_path \o "/rfcs/" \o entry_name
                  file == Abs(fr.path \o "/" \o entry_name)
                  r    == symlink(fs, src, dst)
                  name == DropLast(entry_name, 3)
                  index_item   == listing_row(fr.path, entry_name, fr.depth)
                  maybe_subdir == subdir_of(fr.path, name)
                  next == [stack EXCEPT ![top].i = fr.i + 1]
              IN  IF r.err # "none"
                  THEN /\ err' = r.err
                       /\ pc' = "failed"
                       /\ fs' = r.fs
                       /\ stack' = <<>>
                       /\ UNCHANGED <<stdout, rows, made, skipped, entered>>
                  ELSE /\ made' = IF r.fs # fs
                                  THEN made \cup {[dst |-> Abs(dst), target |-> src, file |-> file]}
                                  ELSE made
                       /\ skipped' = IF r.fs = fs
                                     THEN skipped \cup {[dst |-> Abs(dst), file |-> file]}
                                     ELSE skipped
                       /\ UNCHANGED <<err, pc>>
                       /\ IF is_listed(name)
                          THEN /\ stdout' = stdout \o index_item
                               /\ fs' = write(r.fs, SummaryFile, index_item)
                               /\ rows' = Append(rows, [dir   |-> Abs(fr.path),
                                                        file  |-> file,
                                                        name  |-> entry_name,
                                                        depth |-> fr.depth,
                                                        text  |-> index_item])
                               /\ IF isdir(r.fs, Abs(maybe_subdir))
                                  THEN /\ stack' = Append(next, collect(r.fs, maybe_subdir, fr.depth + 1))
                                       /\ entered' = Append(entered, [dir   |-> Abs(maybe_subdir),
                                                                      via   |-> file,
                                                                      depth |-> fr.depth + 1])
                                  ELSE /\ stack' = next
                                       /\ UNCHANGED entered
                          ELSE /\ fs' = r.fs
                               /\ stack' = next
                               /\ UNCHANGED <<stdout, rows, entered>>
    /\ UNCHANGED <<cwd, src_path, rfc_path, pre, run, prev>>

\* collect(), line 64: the loop is over and the activation returns.
CollectReturn ==
    /\ pc = "collect"
    /\ stack # <<>>
    /\ stack[Len(stack)].i > Len(stack[Len(stack)].entries)
    /\ stack' = SubSeq(stack, 1, Len(stack) - 1)
    /\ pc' = IF Len(stack) = 1 THEN "finish" ELSE "collect"
    /\ UNCHANGED <<cwd, fs, stdout, err, src_path, rfc_path, rows, made, skipped,
                   entered, pre, run, prev>>

\* main(), line 59, and the end of the with blocks.
Finish ==
    /\ pc = "finish"
    /\ stdout' = stdout \o "\n"
    /\ pc' = "done"
    /\ UNCHANGED <<cwd, fs, err, src_path, rfc_path, stack, rows, made, skipped,
                   entered, pre, run, prev>>

Ended == pc \in {"done", "failed"}

\* What the output directory holds: path -> node.
OutLinks(f, out) ==
    LET ps == {p \in DOMAIN f : IsUnder(out, p)} IN [p \in ps |-> f[p]]

SummaryOf(f, path) == IF path \in DOMAIN f THEN f[path].data ELSE ""

\* The tool is run again, from the same directory, on what the run left.
Rerun ==
    /\ Ended
    /\ run < MaxRuns
    /\ prev' = [run     |-> run,
                err     |-> err,
                summary |-> SummaryOf(fs, SummaryFile),
                links   |-> OutLinks(fs, OutDir)]
    /\ run' = run + 1
    /\ pre' = fs
    /\ pc' = "start"
    /\ err' = "none"
    /\ src_path' = ""
    /\ rfc_path' = ""
    /\ stack' = <<>>
    /\ stdout' = ""
    /\ rows' = <<>>
    /\ made' = {}
    /\ skipped' = {}
    /\ entered' = <<>>
    /\ UNCHANGED <<cwd, fs>>

Next ==
    \/ Resolve
    \/ ResetOutput
    \/ WriteHeader
    \/ CollectEntry
    \/ CollectReturn
    \/ Finish
    \/ Rerun

Spec == Init /\ [][Next]_vars

---------------------------------------------------------------------------
\* What the claims speak of

\* The path of p relative to the directory root above it.
Rel(root, p) == SliceFrom(p, Len(root) + 1)

\* The entries below root whose name ends in .md.
MdFiles(f, root) ==
    {p \in DOMAIN f : IsUnder(root, p) /\ EndsWith(Basename(p), ".md")}

\* The number of directories between p and root.
Nesting(root, p) == Len(Segments(Rel(root, p))) - 1

Stem(p) == DropLast(Basename(p), 3)

\* The files symlink() was called for in the current run.
Attempted == {m.file : m \in made} \cup {k.file : k \in skipped}

Listed == {rows[i].file : i \in DOMAIN rows}

Visited == {entered[i].dir : i \in DOMAIN entered}

InOrBelow(dir, d) == d = dir \/ IsUnder(dir, d)

Max(S) == CHOOSE m \in S : \A n \in S : n <= m

\* The nesting depth of the directories of the RFC tree.
TreeDepth ==
    Max({0} \cup {Len(Segments(Rel(RfcRoot, d))) :
                    d \in {q \in DOMAIN fs : IsUnder(RfcRoot, q) /\ fs[q].kind = "dir"}})

\* The entry the innermost activation of collect() is about to handle.
AtEntry ==
    /\ pc = "collect"
    /\ stack # <<>>
    /\ stack[Len(stack)].i <= Len(stack[Len(stack)].entries)

EntryName == stack[Len(stack)].entries[stack[Len(stack)].i]

EntryDst == Abs(src_path \o "/rfcs/" \o EntryName)

EntryFile == Abs(stack[Len(stack)].path \o "/" \o EntryName)

---------------------------------------------------------------------------
\* C1: the destination collect takes for the link of an entry, and so the
\* place of every link that is created, mirrors the path of the file below
\* the RFC root, and after a successful run every markdown file below the
\* RFC root has exactly one link.
C1_EveryFileLinkedAtMirrorPath ==
    /\ AtEntry => EntryDst = OutDir \o "/" \o Rel(RfcRoot, EntryFile)
    /\ \A m \in made : m.dst = OutDir \o "/" \o Rel(RfcRoot, m.file)
    /\ pc = "done" =>
         \A p \in MdFiles(fs, RfcRoot) :
             /\ Cardinality({m \in made : m.file = p}) = 1
             /\ lexists(fs, OutDir \o "/" \o Rel(RfcRoot, p))

\* C2: the rows of the entries of one directory are written in strictly
\* ascending order of file name, and the outline is pre-order: the rows of
\* the directory X/ beside X.md come after the row of X with nothing but
\* rows of X/ and of the directories below it in between, and once the run
\* is over every listed entry of a visited X/ has its row.
C2_RowsSortedPreOrder ==
    /\ \A i, j \in DOMAIN rows :
         (i < j /\ rows[i].dir = rows[j].dir) => StrLess(rows[i].name, rows[j].name)
    /\ \A i, j \in DOMAIN rows :
         LET sub == Dirname(rows[i].file) \o "/" \o Stem(rows[i].file)
         IN  rows[j].dir = sub =>
               /\ i < j
               /\ \A k \in (i + 1)..j : InOrBelow(sub, rows[k].dir)
    /\ pc = "done" =>
         \A i \in DOMAIN rows :
             LET sub == Dirname(rows[i].file) \o "/" \o Stem(rows[i].file)
             IN  \A p \in MdFiles(fs, sub) :
                   (Dirname(p) = sub /\ Basename(p) # "README.md") => p \in Listed

C2_Witness ==
    /\ pc = "done"
    /\ \E i \in DOMAIN rows :
         /\ i + 2 \in DOMAIN rows
         /\ rows[i].name = "a.md" /\ rows[i].depth = 0
         /\ rows[i + 1].dir = RfcRoot \o "/a" /\ rows[i + 1].name = "b.md"
         /\ rows[i + 2].dir = RfcRoot /\ rows[i + 2].name = "b.md"

\* C3: every row is "- ", four spaces for each directory between the file
\* and the RFC root, then [name](rfcs/P) with P the path of the file below
\* the RFC root, in both layouts.
C3_RowFormat ==
    \A i \in DOMAIN rows :
        rows[i].text =
            "- " \o Repeat(" ", 4 * Nesting(RfcRoot, rows[i].file))
                 \o "[" \o Stem(rows[i].file) \o "](rfcs/"
                 \o Rel(RfcRoot, rows[i].file) \o ")\n"

C5_RerunIdempotent ==
    (run >= 2 /\ Ended) =>
        /\ err = prev.err
        /\ SummaryOf(fs, SummaryFile) = prev.summary
        /\ OutLinks(fs, OutDir) = prev.links

C5_Witness ==
    /\ run = 2
    /\ pc = "done"
    /\ prev.err = "none"
    /\ Cardinality(made) >= 2
    /\ Len(rows) >= 2

\* C6: started in a directory whose last segment is neither book nor
\* mnemos, the run changes nothing in the file system and ends with the
\* usage error.
C6_UsageErrorOutsideMarkers ==
    Basename(cwd) \notin {"book", "mnemos"} =>
        /\ fs = pre
        /\ Ended => err = "UsageError"

\* C7: the target of every link that is created, resolved from the
\* directory of the link, is the file the link was created for.
C7_LinksResolve ==
    \A m \in made :
        /\ AbsPath(Dirname(m.dst), m.target) = m.file
        /\ exists(fs, m.dst)

\* C8: when the destination of the entry at hand is taken, the step of
\* collect leaves what is there, raises nothing, writes the row of the
\* entry and goes on.
C8_OccupiedDestinationSkipped ==
    [][(AtEntry /\ lexists(fs, EntryDst)) =>
          /\ err' = "none"
          /\ pc' = "collect"
          /\ fs'[EntryDst] = fs[EntryDst]
          /\ (is_listed(DropLast(EntryName, 3)) => Len(rows') = Len(rows) + 1)]_vars

\* C9: when the summary is about to be opened the output directory exists
\* and is empty, the summary is still as it was and no link has been made;
\* from then on the output directory holds the links made in this run and
\* nothing else.
C9_OutputHoldsOnlyThisRunsLinks ==
    /\ pc \in {"start", "reset", "header"} =>
         /\ made = {}
         /\ SummaryOf(fs, SummaryFile) = SummaryOf(pre, SummaryFile)
    /\ pc = "header" =>
         /\ isdir(fs, OutDir)
         /\ {p \in DOMAIN fs : IsUnder(OutDir, p)} = {}
    /\ pc \in {"collect", "finish", "done"} =>
         \A p \in {q \in DOMAIN fs : IsUnder(OutDir, q)} :
             \E m \in made : m.dst = p /\ fs[p] = LinkNode(m.target)

C9_Witness ==
    /\ pc = "done"
    /\ made # {}
    /\ \E p \in DOMAIN pre : IsUnder(OutDir, p) /\ pre[p].kind = "link"
    /\ (OutDir \o "/old.md") \notin DOMAIN fs
    /\ (OutDir \o "/old/x.md") \notin DOMAIN fs

\* The turns of the loop of collect that are left at most: two for every
\* entry not handled yet, one for every activation.
Measure ==
    2 * Cardinality(MdFiles(fs, RfcRoot) \ Attempted) + Len(stack)

\* Each directory is entered once, below the RFC root only through the
\* entry X.md beside it whose name X it bears, X not README; the
\* activations are nested as the directories are.
EnteredOnce ==
    /\ \A i, j \in DOMAIN entered : entered[i].dir = entered[j].dir => i = j
    /\ \A i \in DOMAIN entered :
         entered[i].via # "" =>
           /\ entered[i].via \in DOMAIN fs
           /\ Dirname(entered[i].via) = Dirname(entered[i].dir)
           /\ EndsWith(Basename(entered[i].via), ".md")
           /\ Stem(entered[i].via) = Basename(entered[i].dir)
           /\ Basename(entered[i].via) # "README.md"
    /\ Len(stack) <= TreeDepth + 1
    /\ \A k \in DOMAIN stack :
         /\ stack[k].depth = k - 1
         /\ stack[k].depth = Len(Segments(Rel(RfcRoot, Abs(stack[k].path))))

============================================================================
